---- MODULE Spec2Model ----
(***************************************************************************)
(* Model of the package-registry backend of src/backend:                   *)
(*   - parseVersion / getMaxVersion (apiPackage.ts) together with the      *)
(*     semver calls they make (toComparators, minVersion; semver 7.x, the  *)
(*     release line that emits the "-0" upper bounds getMaxVersion strips),*)
(*   - the uploadPackage pipeline and the getPackages query handler, run   *)
(*     by concurrently served requests against the persistence layer and   *)
(*     the object store.                                                   *)
(*                                                                         *)
(* Strings.  A range expression is a whitespace separated list of tokens.  *)
(* A token is a record [op, ver, pre]:                                     *)
(*   op  "" (bare version), "=", ">", ">=", "<", "<=", "^", "~",           *)
(*       "*" (wildcard), "ANY" (the empty token ''), "||", "?" (a token    *)
(*       semver cannot parse, such as "abc");                              *)
(*   ver <<major, minor, patch>>;  pre "" or "-0" (prerelease suffix).     *)
(* A version string "1.2.3" is the record [ver |-> <<1,2,3>>, pre |-> ""]. *)
(***************************************************************************)
EXTENDS Integers, Sequences, FiniteSets, TLC

\* ------------------------------------------------------------------ bounds
MaxVer == 1
MaxTokens == 2

\* ---------------------------------------------------------------- versions
NoVer == <<0, 0, 0>>

Versions == {v \in (0..MaxVer) \X (0..MaxVer) \X (0..MaxVer) : v[1] + v[2] + v[3] <= MaxVer}

VStr(v) == [ver |-> v, pre |-> ""]

Tok(o, v, p) == [op |-> o, ver |-> v, pre |-> p]

AnyTok == Tok("ANY", NoVer, "")
OrTok == Tok("||", NoVer, "")
StarTok == Tok("*", NoVer, "")
BadTok == Tok("?", NoVer, "")

VersionOps == {"", "=", ">", ">=", "<", "<=", "^", "~"}

\* the tokens a caller may send
InTokens == {Tok(o, v, "") : o \in VersionOps, v \in Versions} \cup {StarTok, OrTok, BadTok}

HasVersion(t) == t.op \in VersionOps

\* major.minor.patch numeric ordering
TupleLT(a, b) ==
    \/ a[1] < b[1]
    \/ a[1] = b[1] /\ a[2] < b[2]
    \/ a[1] = b[1] /\ a[2] = b[2] /\ a[3] < b[3]

TupleLE(a, b) == a = b \/ TupleLT(a, b)

\* semver's compare on versions with an optional "-0" prerelease
SemverLT(a, b) ==
    \/ TupleLT(a.ver, b.ver)
    \/ a.ver = b.ver /\ a.pre = "-0" /\ b.pre = ""

SemverGT(a, b) == SemverLT(b, a)

\* ------------------------------------------------------- semver: Range
RECURSIVE Flatten(_)
Flatten(ss) == IF ss = <<>> THEN <<>> ELSE Head(ss) \o Flatten(Tail(ss))

\* range.split('||'): the segments between the "||" tokens
RECURSIVE SplitOr(_, _)
SplitOr(s, cur) ==
    IF s = <<>> THEN <<cur>>
    ELSE IF Head(s).op = "||" THEN <<cur>> \o SplitOr(Tail(s), <<>>)
    ELSE SplitOr(Tail(s), Append(cur, Head(s)))

\* replaceCaret on a full version: the upper bound bumps the first nonzero part
CaretHi(M, m, p) ==
    IF M > 0 THEN <<M + 1, 0, 0>>
    ELSE IF m > 0 THEN <<0, m + 1, 0>>
    ELSE <<0, 0, p + 1>>

Caret(t) ==
    <<Tok(">=", t.ver, t.pre), Tok("<", CaretHi(t.ver[1], t.ver[2], t.ver[3]), "-0")>>

\* replaceTilde on a full version
Tilde(t) == <<Tok(">=", t.ver, t.pre), Tok("<", <<t.ver[1], t.ver[2] + 1, 0>>, "-0")>>

\* replaceGTE0: ">=0.0.0" is the empty comparator
ReplaceGTE0(c) == IF c.op = ">=" /\ c.ver = NoVer /\ c.pre = "" THEN AnyTok ELSE c

ReplaceAllGTE0(cs) == [i \in DOMAIN cs |-> ReplaceGTE0(cs[i])]

\* parseComparator and the Comparator constructor ("=" is dropped from the value)
ParseComparator(t) ==
    ReplaceAllGTE0(CASE t.op = "^" -> Caret(t)
                     [] t.op = "~" -> Tilde(t)
                     [] t.op = "=" -> <<Tok("", t.ver, t.pre)>>
                     [] t.op \in {"*", "ANY"} -> <<AnyTok>>
                     [] OTHER -> <<t>>)

SeqHas(s, x) == \E i \in DOMAIN s : s[i] = x

\* the Map keyed by comparator value: the first occurrence keeps its place
RECURSIVE Dedupe(_, _)
Dedupe(s, acc) ==
    IF s = <<>> THEN acc
    ELSE Dedupe(Tail(s), IF SeqHas(acc, Head(s)) THEN acc ELSE Append(acc, Head(s)))

IsNullSet(c) == c = Tok("<", NoVer, "-0")

IsAnyCmp(c) == c.op = "ANY"

NotAnyCmp(c) == c.op # "ANY"

\* rangeMap: drop the empty comparator when others are present
DropAny(uniq) ==
    IF Len(uniq) > 1 /\ SeqHas(uniq, AnyTok) THEN SelectSeq(uniq, NotAnyCmp) ELSE uniq

\* a null-set comparator makes the whole set null
NullOrDeduped(cs, nulls) ==
    IF nulls # <<>> THEN <<Head(nulls)>> ELSE DropAny(Dedupe(cs, <<>>))

ComparatorsOf(seg) ==
    IF seg = <<>> THEN <<AnyTok>>
    ELSE Flatten([i \in DOMAIN seg |-> ParseComparator(seg[i])])

NullsOf(cs) == NullOrDeduped(cs, SelectSeq(cs, IsNullSet))

\* Range.parseRange on one "||" segment
ParseRange(seg) == NullsOf(ComparatorsOf(seg))

\* whether new Range(expr) throws its TypeError: some token is no comparator
RangeThrows(expr) == \E i \in DOMAIN expr : expr[i].op = "?"

NotNullSet(s) == ~IsNullSet(s[1])

IsAnySet(s) == Len(s) = 1 /\ IsAnyCmp(s[1])

\* the Range constructor's pruning: null sets go, and any * set makes the range *
PruneAny(kept, anys) == IF Len(kept) > 1 /\ anys # <<>> THEN <<Head(anys)>> ELSE kept

PruneNull(sets, kept) ==
    IF Len(sets) <= 1 THEN sets
    ELSE IF kept = <<>> THEN <<sets[1]>>
    ELSE PruneAny(kept, SelectSeq(kept, IsAnySet))

Prune(sets) == PruneNull(sets, SelectSeq(sets, NotNullSet))

ParseSegments(segs) == Prune([i \in DOMAIN segs |-> ParseRange(segs[i])])

\* new Range(expr).set
RangeSet(expr) == ParseSegments(SplitOr(expr, <<>>))

\* semver.toComparators(version): one list of comparator values per set
toComparators(version) ==
    IF RangeThrows(version) THEN [threw |-> TRUE, sets |-> <<>>]
    ELSE [threw |-> FALSE, sets |-> RangeSet(version)]

\* comparators.map(set => set.join(' ')).join(' || ')
RECURSIVE JoinOr(_)
JoinOr(sets) ==
    IF Len(sets) <= 1 THEN Flatten(sets)
    ELSE sets[1] \o <<OrTok>> \o JoinOr(Tail(sets))

SemVerOf(c) == [ver |-> c.ver, pre |-> c.pre]

\* Comparator.test on a version
CmpTest(c, v) ==
    CASE c.op = "ANY" -> TRUE
      [] c.op = ""    -> v = SemVerOf(c)
      [] c.op = ">"   -> SemverGT(v, SemVerOf(c))
      [] c.op = ">="  -> ~SemverLT(v, SemVerOf(c))
      [] c.op = "<"   -> SemverLT(v, SemVerOf(c))
      [] c.op = "<="  -> ~SemverGT(v, SemVerOf(c))
      [] OTHER        -> FALSE

\* testSet: a prerelease version needs a comparator with a prerelease on its tuple
TestSet(set, v) ==
    /\ \A i \in DOMAIN set : CmpTest(set[i], v)
    /\ IF v.pre = "" THEN TRUE
       ELSE \E i \in DOMAIN set : set[i].op # "ANY" /\ set[i].pre # "" /\ set[i].ver = v.ver

RangeTest(sets, v) == \E i \in DOMAIN sets : TestSet(sets[i], v)

NULL == [ver |-> <<>>, pre |-> "null"]

\* minVersion's switch on the comparator operator: ">" bumps the patch
LowerBound(c) ==
    IF c.op = ">" THEN [ver |-> <<c.ver[1], c.ver[2], c.ver[3] + 1>>, pre |-> c.pre]
    ELSE SemVerOf(c)

Raise(c, compver, setMin) ==
    IF c.op \notin {">", "", ">="} THEN setMin
    ELSE IF setMin = NULL THEN compver
    ELSE IF SemverGT(compver, setMin) THEN compver
    ELSE setMin

\* the forEach of minVersion over one comparator set
RECURSIVE SetMin(_, _)
SetMin(set, setMin) ==
    IF set = <<>> THEN setMin
    ELSE SetMin(Tail(set), Raise(Head(set), LowerBound(Head(set)), setMin))

Lower(setMin, minver) ==
    IF setMin = NULL THEN minver
    ELSE IF minver = NULL THEN setMin
    ELSE IF SemverGT(minver, setMin) THEN setMin
    ELSE minver

RECURSIVE MinOverSets(_, _)
MinOverSets(sets, minver) ==
    IF sets = <<>> THEN minver
    ELSE MinOverSets(Tail(sets), Lower(SetMin(Head(sets), NULL), minver))

Zero == [ver |-> NoVer, pre |-> ""]

Zero0 == [ver |-> NoVer, pre |-> "-0"]

Tested(sets, minver) ==
    IF minver = NULL THEN NULL
    ELSE IF RangeTest(sets, minver) THEN minver
    ELSE NULL

MinVersionOfSets(sets) ==
    IF RangeTest(sets, Zero) THEN Zero
    ELSE IF RangeTest(sets, Zero0) THEN Zero0
    ELSE Tested(sets, MinOverSets(sets, NULL))

\* semver.minVersion(range)?.version ; NULL when no version is found
minVersion(range) == MinVersionOfSets(RangeSet(range))

\* ------------------------------------------------- apiPackage.ts: parsing
\* versionRange.replace(/-0/g, '')
StripPre0(s) == [i \in DOMAIN s |-> IF s[i].pre = "-0" THEN [s[i] EXCEPT !.pre = ""] ELSE s[i]]

VersionOf(s) == [i \in DOMAIN s |-> VStr(s[i].ver)]

\* versionRange.match(/\d+\.\d+\.\d+/g)
MatchVersions(s) == VersionOf(SelectSeq(s, HasVersion))

FirstOf(versions) == IF Len(versions) > 0 THEN versions[1] ELSE NULL

LastOf(versions) == IF Len(versions) > 0 THEN versions[Len(versions)] ELSE NULL

\* variant of getMaxVersion that takes the first version of the range, not the last
getMaxVersionFirst(versionRange) == FirstOf(MatchVersions(StripPre0(versionRange)))

\* NULL stands for the process.exit(1) branch
getMaxVersion(versionRange) == LastOf(MatchVersions(StripPre0(versionRange)))

startsWith(t, o) == t.op = o

\* variant of Bounds without the single-comparator handling
BoundsNoSingle(tokens, minV, maxV) ==
    IF minV = NULL THEN [kind |-> "exit"]
    ELSE IF maxV = NULL THEN [kind |-> "exit"]
    ELSE [kind |-> "range", min |-> minV, max |-> maxV,
          minInclusive |-> IF Len(tokens) > 0 THEN startsWith(tokens[1], ">=") ELSE FALSE,
          maxInclusive |-> IF Len(tokens) > 1 THEN startsWith(tokens[2], "<=") ELSE FALSE]

\* lines 62-80: the exits, the single-token return and the token-based return
Bounds(tokens, minV, maxV) ==
    IF minV = NULL THEN [kind |-> "exit"]
    ELSE IF maxV = NULL THEN [kind |-> "exit"]
    ELSE IF Len(tokens) <= 1
         THEN [kind |-> "range", min |-> minV, max |-> maxV,
               minInclusive |-> TRUE, maxInclusive |-> TRUE]
    ELSE [kind |-> "range", min |-> minV, max |-> maxV,
          minInclusive |-> startsWith(tokens[1], ">="),
          maxInclusive |-> startsWith(tokens[2], "<=")]

ParseValidRange(validRange) ==
    Bounds(validRange, minVersion(validRange), getMaxVersion(validRange))

ParseComparators(comparators) ==
    IF comparators.threw THEN [kind |-> "TypeError"]
    ELSE ParseValidRange(JoinOr(comparators.sets))

\* kind "range": the returned object; "exit": process.exit(1); "TypeError": thrown
parseVersion(version) == ParseComparators(toComparators(version))

\* ------------------------------------------- apiPackage.ts: the archive
\* An uploaded archive: zip FALSE when JSZip.loadAsync rejects the buffer;
\* entries are the paths in the zip; json "malformed" when JSON.parse throws;
\* name, version and repository are the manifest's fields.
Paths == {"package.json", "pkg/package.json", "index.js"}

ManifestPaths == {"package.json", "pkg/package.json"}

Archive(z, e, j, v, u) ==
    [zip |-> z, entries |-> e, json |-> j, name |-> "widget", version |-> v, repository |-> u]

Archives ==
    {Archive(TRUE, {"package.json", "index.js"}, "ok", VStr(<<1, 0, 0>>),
             "https://github.com/acme/widget.git"),
     Archive(TRUE, {"pkg/package.json"}, "ok", VStr(<<0, 0, 1>>), "github:acme/widget"),
     Archive(TRUE, {"index.js"}, "ok", VStr(<<0, 0, 1>>), "github:acme/widget"),
     Archive(TRUE, {"package.json"}, "malformed", VStr(<<0, 0, 1>>), "undefined"),
     Archive(TRUE, {"package.json"}, "ok", VStr(<<0, 0, 1>>), "undefined"),
     Archive(TRUE, {"package.json"}, "ok", VStr(<<0, 0, 1>>), "https://example.com/acme/widget"),
     Archive(FALSE, {}, "malformed", VStr(<<0, 0, 1>>), "undefined")}

\* the exact name first, then any path ending in the name; "" when the lookup throws
extractFileFromZip(archive, filename) ==
    IF ~archive.zip THEN ""
    ELSE IF filename \in archive.entries THEN filename
    ELSE LET files == {f \in archive.entries : f \in ManifestPaths}
         IN IF files # {} THEN CHOOSE f \in files : TRUE ELSE ""

\* TRUE when extractMetadataFromZip throws
extractMetadataThrows(archive) ==
    \/ extractFileFromZip(archive, "package.json") = ""
    \/ archive.json = "malformed"

\* the url getGithubUrlFromZip returns; "" when it throws
getGithubUrlFromZip(archive) ==
    IF extractFileFromZip(archive, "package.json") = "" THEN ""
    ELSE IF archive.json = "malformed" THEN ""
    ELSE IF archive.repository = "undefined" THEN ""
    ELSE IF archive.repository = "github:acme/widget" THEN "https://github.com/acme/widget"
    ELSE IF archive.repository = "https://github.com/acme/widget.git"
         THEN "https://github.com/acme/widget"
    ELSE archive.repository

NoMatch == [owner |-> "", repo |-> ""]

\* the regex github\.com[/:]([^/]+)\/([^/.]+)(\.git)? ; NoMatch stands for null
parseGitHubUrl(url) ==
    IF url \in {"https://github.com/acme/widget", "https://github.com/acme/widget.git"}
    THEN [owner |-> "acme", repo |-> "widget"]
    ELSE NoMatch

\* ------------------------------------------------ prismaCalls.ts: queries
pageSize == 10

\* the characters of a version string, as character codes ('.' is 46, '0' is 48)
RECURSIVE Digits(_)
Digits(n) == IF n < 10 THEN <<48 + n>> ELSE Append(Digits(n \div 10), 48 + (n % 10))

Chars(v) ==
    Digits(v.ver[1]) \o <<46>> \o Digits(v.ver[2]) \o <<46>> \o Digits(v.ver[3])
    \o (IF v.pre = "-0" THEN <<45, 48>> ELSE <<>>)

\* the database's string comparison
RECURSIVE CharsLT(_, _)
CharsLT(a, b) ==
    IF b = <<>> THEN FALSE
    ELSE IF a = <<>> THEN TRUE
    ELSE IF Head(a) # Head(b) THEN Head(a) < Head(b)
    ELSE CharsLT(Tail(a), Tail(b))

StringLT(a, b) == CharsLT(Chars(a), Chars(b))

Min2(a, b) == IF a < b THEN a ELSE b

Max2(a, b) == IF a > b THEN a ELSE b

\* the rows the where-condition of getMetaDataByQuery selects
whereCondition(table, queryName, minVersion_, maxVersion_, minInclusive, maxInclusive) ==
    {row \in table :
        /\ IF minInclusive
           THEN ~StringLT(row.version, maxVersion_)
           ELSE StringLT(maxVersion_, row.version)
        /\ IF maxInclusive
           THEN ~StringLT(minVersion_, row.version)
           ELSE StringLT(row.version, minVersion_)
        /\ queryName \in {"*", "undefined"} \/ row.name = queryName}

\* ------------------------------------------------------------------ state
NumReqs == 2

Reqs == 1..NumReqs

\* the ids uuidv4 hands out, in the order in which fresh ones appear
IdSeq == <<"u1", "u2">>

IDs == {IdSeq[i] : i \in DOMAIN IdSeq}

\* the request bodies of POST /packages the model sends
QueryExprs ==
    {<<>>,
     <<Tok("", <<0, 0, 1>>, "")>>,
     <<Tok(">=", <<0, 0, 1>>, ""), Tok("<=", <<1, 0, 0>>, "")>>,
     <<Tok(">", <<0, 0, 1>>, "")>>,
     <<BadTok>>}

\* hasVersion FALSE: req.body.Version is undefined; offset 0: req.query.offset is undefined
Body(N, n, h, v, o) ==
    [Name |-> N, name |-> n, hasVersion |-> h, Version |-> v, offset |-> o]

QueryBodies ==
    {Body("widget", "*", TRUE, v, 0) : v \in QueryExprs}
    \cup {Body("undefined", "widget", TRUE, <<>>, 0),
          Body("widget", "widget", FALSE, <<>>, 0),
          Body("widget", "undefined", TRUE, <<Tok("", <<0, 0, 1>>, "")>>, 2),
          Body("gadget", "undefined", TRUE, <<Tok("", <<0, 0, 1>>, "")>>, 0)}

NoRequest == [kind |-> "none"]

NoMetadata == [Name |-> "", Version |-> NULL, ID |-> ""]

VARIABLES
    expr,           \* the expression handed to parseVersion (SpecParse)
    parsed,         \* what parseVersion did with it (SpecParse)
    alive,          \* the server process is running
    bucketName,     \* process.env.AWS_S3_BUCKET_NAME is set
    users,          \* ids of the User rows
    metadataTable,  \* PackageMetadata rows
    historyTable,   \* PackageHistoryEntry rows
    ratingTable,    \* metadataIds of the PackageRating rows
    s3Objects,      \* keys in the bucket
    pc,             \* per request: the step about to run
    req,            \* per request: what the client sent
    resp,           \* per request: the status sent, 0 before any
    metadata,       \* per request: the metadata uploadPackage extracted
    calls,          \* per request: the collaborator calls it issued, in order
    packageExists,  \* per request: what the duplicate check of uploadPackage found
    range,          \* per request: what parseVersion returned to getPackages
    found           \* per request: the rows getPackages answered with

vars == <<expr, parsed, alive, bucketName, users, metadataTable, historyTable,
          ratingTable, s3Objects, pc, req, resp, metadata, calls, packageExists, range, found>>

parseVars == <<expr, parsed>>

serverVars == <<alive, bucketName, users, metadataTable, historyTable, ratingTable,
                s3Objects, pc, req, resp, metadata, calls, packageExists, range, found>>

Call(o, k) == [op |-> o, ok |-> k]

Issued(r, o) == \E i \in DOMAIN calls[r] : calls[r][i].op = o

Succeeded(r, o) == \E i \in DOMAIN calls[r] : calls[r][i] = Call(o, TRUE)

InitServer ==
    /\ alive = TRUE
    /\ bucketName \in BOOLEAN
    /\ users \in {{}, {1}}
    /\ metadataTable = {}
    /\ historyTable = {}
    /\ ratingTable = {}
    /\ s3Objects = {}
    /\ pc = [r \in Reqs |-> "Idle"]
    /\ req = [r \in Reqs |-> NoRequest]
    /\ resp = [r \in Reqs |-> 0]
    /\ metadata = [r \in Reqs |-> NoMetadata]
    /\ calls = [r \in Reqs |-> <<>>]
    /\ packageExists = [r \in Reqs |-> FALSE]
    /\ range = [r \in Reqs |-> [kind |-> "none"]]
    /\ found = [r \in Reqs |-> {}]

Init ==
    /\ expr = <<>>
    /\ parsed = [kind |-> "none"]
    /\ InitServer

\* requests are numbered in their order of arrival
Arrives(r) == alive /\ pc[r] = "Idle" /\ (IF r = 1 THEN TRUE ELSE pc[r - 1] # "Idle")

At(r, step) == alive /\ pc[r] = step

\* res.status(code).send(...) / res.json(...), ending the handler
Respond(r, code) ==
    /\ pc' = [pc EXCEPT ![r] = "Done"]
    /\ resp' = [resp EXCEPT ![r] = code]

Goto(r, step) ==
    /\ pc' = [pc EXCEPT ![r] = step]
    /\ UNCHANGED resp

Log(r, cs) == calls' = [calls EXCEPT ![r] = @ \o cs]

tables == <<metadataTable, historyTable, ratingTable, s3Objects>>

env == <<alive, bucketName, users>>

\* ------------------------------------------- apiPackage.ts: uploadPackage
UsedIds == {metadata[q].ID : q \in Reqs} \cap IDs

\* uuidv4(): an id no request has drawn yet (ids are opaque, so the fresh one is the
\* next of IdSeq), or, as a collision, one that was drawn before
uuidv4 ==
    UsedIds \cup (IF Cardinality(UsedIds) < Len(IdSeq)
                  THEN {IdSeq[Cardinality(UsedIds) + 1]} ELSE {})

\* entry of the handler up to the end of extractMetadataFromZip
StepExtractMetadata(r) ==
    /\ Arrives(r)
    /\ \E hasFile \in BOOLEAN, archive \in Archives, id \in uuidv4 :
         /\ req' = [req EXCEPT ![r] = [kind |-> "upload", file |-> hasFile,
                                       originalname |-> "widget.zip", buffer |-> archive]]
         /\ IF ~hasFile
            THEN /\ archive = CHOOSE a \in Archives : TRUE
                 /\ id = CHOOSE i \in uuidv4 : TRUE
                 /\ Respond(r, 400)
                 /\ UNCHANGED metadata
            ELSE IF extractMetadataThrows(archive)
            THEN /\ id = CHOOSE i \in IDs : TRUE
                 /\ Respond(r, 500)
                 /\ UNCHANGED metadata
            ELSE /\ metadata' = [metadata EXCEPT ![r] =
                        [Name |-> archive.name, Version |-> archive.version, ID |-> id]]
                 /\ Goto(r, "ResolvingRepository")
    /\ UNCHANGED <<parseVars, env, tables, calls, packageExists, range, found>>

\* variant of StepResolveRepository that goes on when no repository URL was found
StepResolveRepositoryNoCheck(r) ==
    /\ At(r, "ResolvingRepository")
    /\ IF getGithubUrlFromZip(req[r].buffer) = ""
       THEN Respond(r, 500)
       ELSE Goto(r, "CheckingDuplicate")
    /\ UNCHANGED <<parseVars, env, tables, req, metadata, calls, packageExists, range, found>>

\* getGithubUrlFromZip, then parseGitHubUrl and its null check
StepResolveRepository(r) ==
    /\ At(r, "ResolvingRepository")
    /\ LET url == getGithubUrlFromZip(req[r].buffer)
       IN IF url = "" THEN Respond(r, 500)
          ELSE IF parseGitHubUrl(url) = NoMatch THEN Respond(r, 400)
          ELSE Goto(r, "CheckingDuplicate")
    /\ UNCHANGED <<parseVars, env, tables, req, metadata, calls, packageExists, range, found>>

\* prismaCalls.checkPackageHistoryExists: count > 0
checkPackageHistoryExists(metadataId) ==
    Cardinality({h \in historyTable : h.metadataId = metadataId}) > 0

\* variant of StepCheckDuplicate that answers 409 and still goes on to the writes
StepCheckDuplicateNoReturn(r) ==
    /\ At(r, "CheckingDuplicate")
    /\ Log(r, <<Call("count", TRUE)>>)
    /\ packageExists' = [packageExists EXCEPT ![r] = checkPackageHistoryExists(metadata[r].ID)]
    /\ Goto(r, "PersistingMetadata")
    /\ UNCHANGED <<parseVars, env, tables, req, metadata, range, found>>

\* the duplicate check: 409 when a history entry exists; a failed query is caught as 500
StepCheckDuplicate(r) ==
    /\ At(r, "CheckingDuplicate")
    /\ \E dbOk \in BOOLEAN :
         /\ Log(r, <<Call("count", dbOk)>>)
         /\ packageExists' = [packageExists EXCEPT ![r] =
                                  dbOk /\ checkPackageHistoryExists(metadata[r].ID)]
         /\ IF ~dbOk THEN Respond(r, 500)
            ELSE IF checkPackageHistoryExists(metadata[r].ID) THEN Respond(r, 409)
            ELSE Goto(r, "PersistingMetadata")
    /\ UNCHANGED <<parseVars, env, tables, req, metadata, range, found>>

\* variant of StepPersistMetadata that leaves the metadata row out
StepPersistMetadataSkip(r) ==
    /\ At(r, "PersistingMetadata")
    /\ Log(r, <<Call("createMetadata", TRUE)>>)
    /\ metadataTable' = metadataTable \cup
            {[id |-> metadata[r].ID, name |-> metadata[r].Name, version |-> metadata[r].Version]}
    /\ Goto(r, "StoringArchive")
    /\ UNCHANGED <<parseVars, env, historyTable, ratingTable, s3Objects, req, metadata,
                   packageExists, range, found>>

\* prismaCalls.uploadMetadataToDatabase: the create fails on a taken id or a database error
StepPersistMetadata(r) ==
    /\ At(r, "PersistingMetadata")
    /\ \E dbOk \in BOOLEAN :
         LET created == dbOk /\ \A row \in metadataTable : row.id # metadata[r].ID
         IN /\ Log(r, <<Call("createMetadata", created)>>)
            /\ IF created
               THEN /\ metadataTable' = metadataTable \cup
                          {[id |-> metadata[r].ID, name |-> metadata[r].Name,
                            version |-> metadata[r].Version]}
                    /\ Goto(r, "RecordingHistory")
               ELSE /\ UNCHANGED metadataTable
                    /\ Respond(r, 500)
    /\ UNCHANGED <<parseVars, env, historyTable, ratingTable, s3Objects, req, metadata,
                   packageExists, range, found>>

\* variant of StepRecordHistory that does not look the user up
StepRecordHistoryNoUserCheck(r) ==
    /\ At(r, "RecordingHistory")
    /\ Log(r, <<Call("findMetadata", TRUE), Call("findUser", 1 \in users),
                Call("createHistoryEntry", TRUE)>>)
    /\ historyTable' = historyTable \cup
            {[metadataId |-> metadata[r].ID, userId |-> 1, action |-> "CREATE"]}
    /\ Goto(r, "ScoringAndStoringRating")
    /\ UNCHANGED <<parseVars, env, metadataTable, ratingTable, s3Objects, req, metadata,
                   packageExists, range, found>>

\* prismaCalls.createPackageHistoryEntry(metadata.ID, 1, CREATE); any throw is a 500
StepRecordHistory(r) ==
    /\ At(r, "RecordingHistory")
    /\ LET metadataExists == \E row \in metadataTable : row.id = metadata[r].ID
           userExists == 1 \in users
       IN IF ~metadataExists
          THEN /\ Log(r, <<Call("findMetadata", FALSE)>>)
               /\ Respond(r, 500)
               /\ UNCHANGED historyTable
          ELSE IF ~userExists
          THEN /\ Log(r, <<Call("findMetadata", TRUE), Call("findUser", FALSE)>>)
               /\ Respond(r, 500)
               /\ UNCHANGED historyTable
          ELSE \E dbOk \in BOOLEAN :
               /\ Log(r, <<Call("findMetadata", TRUE), Call("findUser", TRUE),
                           Call("createHistoryEntry", dbOk)>>)
               /\ IF dbOk
                  THEN /\ historyTable' = historyTable \cup
                             {[metadataId |-> metadata[r].ID, userId |-> 1,
                               action |-> "CREATE"]}
                       /\ Goto(r, "ScoringAndStoringRating")
                  ELSE /\ UNCHANGED historyTable
                       /\ Respond(r, 500)
    /\ UNCHANGED <<parseVars, env, metadataTable, ratingTable, s3Objects, req, metadata,
                   packageExists, range, found>>

\* calculateAndStoreGithubMetrics: NET_SCORE.calculate, then storeMetricsInDatabase;
\* its catch logs every failure and returns normally
StepScore(r) ==
    /\ At(r, "ScoringAndStoringRating")
    /\ \E calcOk \in BOOLEAN, dbOk \in BOOLEAN :
         LET stored == dbOk /\ metadata[r].ID \notin ratingTable
         IN IF ~calcOk
            THEN /\ dbOk
                 /\ Log(r, <<Call("calculate", FALSE)>>)
                 /\ UNCHANGED ratingTable
            ELSE /\ Log(r, <<Call("calculate", TRUE), Call("createRating", stored)>>)
                 /\ ratingTable' = IF stored THEN ratingTable \cup {metadata[r].ID}
                                    ELSE ratingTable
    /\ Goto(r, "StoringArchive")
    /\ UNCHANGED <<parseVars, env, metadataTable, historyTable, s3Objects, req, metadata,
                   packageExists, range, found>>

\* uploadToS3, then res.json(Package); a rejected upload reaches the handler's catch
StepStoreArchive(r) ==
    /\ At(r, "StoringArchive")
    /\ IF ~bucketName
       THEN /\ Respond(r, 500)
            /\ UNCHANGED <<calls, s3Objects>>
       ELSE \E s3Ok \in BOOLEAN :
            /\ Log(r, <<Call("put", s3Ok)>>)
            /\ IF s3Ok
               THEN /\ s3Objects' = s3Objects \cup {req[r].originalname}
                    /\ Respond(r, 200)
               ELSE /\ UNCHANGED s3Objects
                    /\ Respond(r, 500)
    /\ UNCHANGED <<parseVars, env, metadataTable, historyTable, ratingTable, req, metadata,
                   packageExists, range, found>>

\* --------------------------------------------- apiPackage.ts: getPackages
\* entry of the handler up to the call of getMetaDataByQuery
StepGetPackages(r) ==
    /\ Arrives(r)
    /\ \E body \in QueryBodies :
         /\ req' = [req EXCEPT ![r] = [kind |-> "getPackages", body |-> body]]
         /\ IF body.Name = "undefined" \/ ~body.hasVersion
            THEN /\ Respond(r, 400)
                 /\ UNCHANGED <<alive, range>>
            ELSE /\ range' = [range EXCEPT ![r] = parseVersion(body.Version)]
                 /\ CASE range'[r].kind = "TypeError" -> Respond(r, 500) /\ UNCHANGED alive
                      [] range'[r].kind = "exit" -> alive' = FALSE /\ Goto(r, "Exited")
                      [] OTHER -> Goto(r, "Querying") /\ UNCHANGED alive
    /\ UNCHANGED <<parseVars, bucketName, users, tables, metadata, calls, packageExists, found>>

\* prismaCalls.getMetaDataByQuery from the database's answer to its findMany (rows or
\* an error) and the response getPackages builds from the result; the handler runs
\* without a break from its entry to this await, and it starts no timer: the only way
\* on from "Querying" is the answer
StepQuery(r) ==
    /\ At(r, "Querying")
    /\ LET body == req[r].body
           offset == IF body.offset = 0 THEN 1 ELSE body.offset
           page == Max2(1, offset)
           recordsToSkip == (page - 1) * pageSize
           rows == whereCondition(metadataTable, body.name, range[r].min, range[r].max,
                                  range[r].minInclusive, range[r].maxInclusive)
           take == Min2(pageSize, Max2(0, Cardinality(rows) - recordsToSkip))
       IN \E dbOk \in BOOLEAN, packages \in SUBSET rows :
            /\ Log(r, <<Call("findMany", dbOk)>>)
            /\ IF dbOk
               THEN /\ Cardinality(packages) = take
                    /\ found' = [found EXCEPT ![r] = packages]
                    /\ Respond(r, 200)
               ELSE /\ packages = {}
                    /\ UNCHANGED found
                    /\ Respond(r, 500)
    /\ UNCHANGED <<parseVars, env, tables, req, metadata, packageExists, range>>

Next ==
    \E r \in Reqs :
        \/ StepExtractMetadata(r)
        \/ StepResolveRepository(r)
        \/ StepCheckDuplicate(r)
        \/ StepPersistMetadata(r)
        \/ StepRecordHistory(r)
        \/ StepScore(r)
        \/ StepStoreArchive(r)
        \/ StepGetPackages(r)
        \/ StepQuery(r)

Spec == Init /\ [][Next]_vars

\* what the server does by itself: every step of a handler except StepQuery, which
\* needs the database's answer to the findMany of getMetaDataByQuery
HandlerStep(r) ==
    \/ StepExtractMetadata(r)
    \/ StepResolveRepository(r)
    \/ StepCheckDuplicate(r)
    \/ StepPersistMetadata(r)
    \/ StepRecordHistory(r)
    \/ StepScore(r)
    \/ StepStoreArchive(r)
    \/ StepGetPackages(r)

\* the event loop runs every continuation that is ready; the database is not assumed
\* to answer
SpecLive == Spec /\ \A r \in Reqs : WF_vars(HandlerStep(r))

\* ------------------------------------------- parseVersion on every input
Exprs == UNION {[1..n -> InTokens] : n \in 0..MaxTokens}

InitParse ==
    /\ expr \in Exprs
    /\ parsed = [kind |-> "none"]
    /\ InitServer
    /\ bucketName = TRUE
    /\ users = {1}

\* one call of parseVersion: it returns, throws or ends the process
Parse ==
    /\ parsed.kind = "none"
    /\ parsed' = parseVersion(expr)
    /\ UNCHANGED <<expr, serverVars>>

NextParse == Parse

SpecParse == InitParse /\ [][NextParse]_vars

\* ------------------------------------------------------------- properties
Uploads == {r \in Reqs : req[r].kind = "upload"}

Queries == {r \in Reqs : req[r].kind = "getPackages"}

WriteOps == {"createMetadata", "createHistoryEntry", "createRating", "put"}

NoWrite(r) == \A i \in DOMAIN calls[r] : calls[r][i].op \notin WriteOps

Times(r, o) == Cardinality({i \in DOMAIN calls[r] : calls[r][i].op = o})

HasMetadataRow(id) == \E row \in metadataTable : row.id = id

HasHistoryRow(id) == \E h \in historyTable : h.metadataId = id

\* read off the uploaded bytes alone: no manifest in a readable zip, a manifest that is
\* no JSON, no repository field, or a repository that is not on github.com
ArchiveRejected(a) ==
    \/ ~a.zip
    \/ a.entries \cap ManifestPaths = {}
    \/ a.json = "malformed"
    \/ a.repository \in {"undefined", "https://example.com/acme/widget"}

\* C1: an upload whose manifest extraction, manifest parsing, repository-url extraction
\* or parseGitHubUrl fails stops in the first two steps, answers with an error status,
\* and has issued no createMetadata, createHistoryEntry, createRating or put.
C1_ExtractionFailureAborts ==
    \A r \in Uploads :
        (req[r].file /\ ArchiveRejected(req[r].buffer)) =>
            /\ NoWrite(r)
            /\ pc[r] \in {"ResolvingRepository", "Done"}
            /\ pc[r] = "Done" => resp[r] \in {400, 500}

C1_Witness ==
    \E r \in Uploads :
        /\ req[r].file
        /\ req[r].buffer.zip
        /\ req[r].buffer.entries \cap ManifestPaths = {}
        /\ pc[r] = "Done"
        /\ resp[r] = 500

ScoringFailed(r) ==
    \E i \in DOMAIN calls[r] :
        calls[r][i] \in {Call("calculate", FALSE), Call("createRating", FALSE)}

\* C2: when the scoring step of an upload fails, the metadata row and the history entry
\* stay, no rating row exists for the id, the pipeline goes on to archive storage, and
\* the request ends with success (200), not with an error.
C2_ScoringFailureStillSucceeds ==
    \A r \in Uploads :
        ScoringFailed(r) =>
            /\ HasMetadataRow(metadata[r].ID)
            /\ HasHistoryRow(metadata[r].ID)
            /\ metadata[r].ID \notin ratingTable
            /\ pc[r] \in {"StoringArchive", "Done"}
            /\ pc[r] = "Done" => resp[r] = 200

ArchiveUploadFailed(r) ==
    /\ pc[r] = "Done"
    /\ Succeeded(r, "createHistoryEntry")
    /\ IF bucketName THEN Issued(r, "put") /\ ~Succeeded(r, "put") ELSE TRUE

\* C3: when the upload of the archive to the object store fails (a missing bucket name
\* included) after metadata and history were committed, the metadata row is kept and
\* the request still ends with success (200).
C3_ArchiveFailureSwallowed ==
    \A r \in Uploads :
        ArchiveUploadFailed(r) =>
            /\ HasMetadataRow(metadata[r].ID)
            /\ resp[r] = 200

Rank(o) ==
    CASE o = "count" -> 1
      [] o = "createMetadata" -> 2
      [] o = "findMetadata" -> 3
      [] o = "findUser" -> 4
      [] o = "createHistoryEntry" -> 5
      [] o = "calculate" -> 6
      [] o = "createRating" -> 7
      [] o = "put" -> 8
      [] OTHER -> 0

StepRank(step) ==
    CASE step = "ResolvingRepository" -> 2
      [] step = "CheckingDuplicate" -> 3
      [] step = "PersistingMetadata" -> 4
      [] step = "RecordingHistory" -> 5
      [] step = "ScoringAndStoringRating" -> 6
      [] step = "StoringArchive" -> 7
      [] OTHER -> 8

\* C4: the calls of one upload are issued in the order of the steps, each step only after
\* the one before it has completed: the duplicate check answers before the metadata row
\* is created, the row exists before the history entry is attempted, the history entry
\* before the scoring, and the scoring has been attempted before the object-store put.
C4_StepsInOrder ==
    \A r \in Uploads :
        /\ \A i, j \in DOMAIN calls[r] : i < j => Rank(calls[r][i].op) < Rank(calls[r][j].op)
        /\ Issued(r, "createMetadata") => Succeeded(r, "count")
        /\ Issued(r, "findMetadata") => Succeeded(r, "createMetadata")
        /\ Issued(r, "calculate") => Succeeded(r, "createHistoryEntry")
        /\ Issued(r, "put") => Issued(r, "calculate")
        /\ StepRank(pc[r]) <= 3 => ~Issued(r, "createMetadata")
        /\ StepRank(pc[r]) <= 4 => ~Issued(r, "findMetadata")
        /\ StepRank(pc[r]) <= 5 => ~Issued(r, "calculate")
        /\ StepRank(pc[r]) <= 6 => ~Issued(r, "put")
        /\ pc[r] = "StoringArchive" => Issued(r, "calculate")
        /\ resp[r] = 200 => Issued(r, "put")

C4_Witness ==
    \E r \in Uploads :
        /\ resp[r] = 200
        /\ Succeeded(r, "createRating")
        /\ Succeeded(r, "put")

\* C5: an upload whose duplicate check finds a history entry for its id ends with 409
\* and issues no write, neither before the check nor after it.
C5_DuplicateAbortsWithoutWrites ==
    \A r \in Uploads :
        packageExists[r] =>
            /\ pc[r] = "Done"
            /\ resp[r] = 409
            /\ NoWrite(r)

C5_Witness == \E r \in Uploads : packageExists[r] /\ resp[r] = 409

HistoryStepRan(r) == Succeeded(r, "createMetadata") /\ pc[r] # "RecordingHistory"

\* C6: once the history step of an upload has run with the metadata row or user 1
\* missing, the request has ended with 500, the lookups ran once, no history entry was
\* written for the id, and neither a rating nor an archive upload was attempted.
C6_MissingUserIsFatal ==
    \A r \in Uploads :
        (HistoryStepRan(r) /\ (1 \notin users \/ ~HasMetadataRow(metadata[r].ID))) =>
            /\ pc[r] = "Done"
            /\ resp[r] = 500
            /\ Times(r, "findMetadata") = 1
            /\ Times(r, "findUser") <= 1
            /\ ~Issued(r, "createHistoryEntry")
            /\ ~HasHistoryRow(metadata[r].ID)
            /\ ~Issued(r, "calculate")
            /\ ~Issued(r, "createRating")
            /\ ~Issued(r, "put")

C6_Witness ==
    \E r \in Uploads :
        /\ HistoryStepRan(r)
        /\ 1 \notin users
        /\ calls[r][Len(calls[r])] = Call("findUser", FALSE)
        /\ resp[r] = 500

\* C7: every range parseVersion returns has min <= max in major.minor.patch order.
C7_MinAtMostMax ==
    parsed.kind = "range" => TupleLE(parsed.min.ver, parsed.max.ver)

IsExact(e) == Len(e) = 1 /\ e[1].op = ""

Inclusive(a, b) ==
    [kind |-> "range", min |-> VStr(a), max |-> VStr(b),
     minInclusive |-> TRUE, maxInclusive |-> TRUE]

\* C8: for a bare version v, parseVersion returns min = v, max = v, both inclusive.
C8_ExactVersion ==
    (IsExact(expr) /\ parsed.kind # "none") => parsed = Inclusive(expr[1].ver, expr[1].ver)

C8_Witness == IsExact(expr) /\ expr[1].ver # NoVer /\ parsed.kind = "range"

IsClosedRange(e) ==
    /\ Len(e) = 2
    /\ e[1].op = ">="
    /\ e[2].op = "<="
    /\ TupleLE(e[1].ver, e[2].ver)

\* C9: for ">=a <=b" with a <= b, parseVersion returns min = a, max = b, both inclusive.
C9_ClosedRange ==
    (IsClosedRange(expr) /\ parsed.kind # "none") => parsed = Inclusive(expr[1].ver, expr[2].ver)

C9_Witness ==
    /\ IsClosedRange(expr)
    /\ TupleLT(NoVer, expr[1].ver)
    /\ TupleLT(expr[1].ver, expr[2].ver)
    /\ parsed.kind = "range"

\* the canonical comparator string of e holds no major.minor.patch token
NoVersionToken(e) ==
    IF RangeThrows(e) THEN FALSE ELSE MatchVersions(JoinOr(RangeSet(e))) = <<>>

\* C10: a getPackages request whose Version is the empty string, or has a canonical
\* comparator string without a major.minor.patch token, gets an error from parseVersion
\* as an outcome: the process keeps running and the request receives a response.
C10_InvalidRangeIsAnswered ==
    \A r \in Queries :
        (/\ req[r].body.Name # "undefined"
         /\ req[r].body.hasVersion
         /\ NoVersionToken(req[r].body.Version)) =>
            /\ alive
            /\ range[r].kind # "exit"
            /\ pc[r] = "Done"
            /\ resp[r] \in {400, 500}

\* v lies within the bounds parseVersion returned, in semver order
WithinBounds(v, rg) ==
    /\ IF rg.minInclusive THEN ~SemverLT(v, rg.min) ELSE SemverLT(rg.min, v)
    /\ IF rg.maxInclusive THEN ~SemverLT(rg.max, v) ELSE SemverLT(v, rg.max)

\* C11: every record a getPackages request answers with has a version within the
\* bounds parseVersion returned (inclusive or exclusive as the flags say) and, unless
\* the requested Name is the wildcard '*', the requested name; the answer holds at
\* most one page of pageSize records.
C11_ResultsWithinBoundsAndPage ==
    \A r \in Queries :
        resp[r] = 200 =>
            /\ \A row \in found[r] :
                 /\ WithinBounds(row.version, range[r])
                 /\ req[r].body.Name # "*" => row.name = req[r].body.Name
            /\ Cardinality(found[r]) <= pageSize

\* C12: the findMany of getMetaDataByQuery is bounded by a timeout: while the process
\* runs, a getPackages request that waits for the database eventually completes, with
\* or without an answer from the database.
C12_QueryTimesOut ==
    \A r \in Reqs : (pc[r] = "Querying") ~> (pc[r] = "Done" \/ ~alive)

\* the comparator tokens of the canonical string parseVersion splits
CanonTokens(e) == IF RangeThrows(e) THEN <<>> ELSE JoinOr(RangeSet(e))

\* a token that includes the version m as its lower bound: '>=m' or the exact 'm'
YieldsMinInclusive(t, m) == t.op \in {">=", ""} /\ t.ver = m.ver /\ t.pre = m.pre

\* a token '>v' whose least version above v is m
YieldsMinExclusive(t, m) ==
    t.op = ">" /\ t.pre = "" /\ m.pre = "" /\ m.ver = <<t.ver[1], t.ver[2], t.ver[3] + 1>>

\* the token the returned max is read from: the last one that carries a version
MaxToken(toks) == LastOf(SelectSeq(toks, HasVersion))

MinFlagRight(toks, p) ==
    IF \E i \in DOMAIN toks : YieldsMinInclusive(toks[i], p.min) THEN p.minInclusive
    ELSE IF \E i \in DOMAIN toks : YieldsMinExclusive(toks[i], p.min) THEN ~p.minInclusive
    ELSE TRUE

MaxFlagRight(t, p) ==
    IF t.op \in {"<=", ""} THEN p.maxInclusive
    ELSE IF t.op = "<" THEN ~p.maxInclusive
    ELSE TRUE

\* C13: for an accepted expression whose canonical string has more than one token,
\* minInclusive is TRUE when the comparator that yields the returned min is '>=' or an
\* exact version and FALSE when it is '>', and maxInclusive is TRUE when the comparator
\* that yields the returned max is '<=' or an exact version and FALSE when it is '<'.
C13_FlagsFollowComparators ==
    (parsed.kind = "range" /\ Len(CanonTokens(expr)) > 1) =>
        /\ MinFlagRight(CanonTokens(expr), parsed)
        /\ MaxFlagRight(MaxToken(CanonTokens(expr)), parsed)

====
